---- MODULE Spec2Model ----
(***************************************************************************)
(* A state-machine model of the 3DS chunk reader of src/cel3ds/3dsread.cpp *)
(* (Celestia).  The reader is a recursive descent over one forward-only    *)
(* byte stream; the model keeps the stream as a sequence of bytes, the     *)
(* cursor and stream state, and the C++ call stack as a sequence of        *)
(* frames.  Every function of the reader is one action, or one action per  *)
(* segment between two nested read3DSChunks calls.                         *)
(***************************************************************************)
EXTENDS Integers, Sequences, FiniteSets, TLC

(***************************************************************************)
(* Result sentinels and fixed sizes of the wire format.                    *)
(***************************************************************************)
READ_FAILURE == -1
UNKNOWN_CHUNK == -2
maxLength == 1024
HeaderSize == 6

(* Chunk type tags (3dschunk.h), used by the handlers' switches. *)
M3DCHUNK_MAGIC == 19789
M3DCHUNK_MESHDATA == 15677
M3DCHUNK_BACKGROUND_COLOR == 4608
M3DCHUNK_NAMED_OBJECT == 16384
M3DCHUNK_TRIANGLE_MESH == 16640
M3DCHUNK_POINT_ARRAY == 16656
M3DCHUNK_FACE_ARRAY == 16672
M3DCHUNK_MESH_MATERIAL_GROUP == 16688
M3DCHUNK_MESH_TEXTURE_COORDS == 16704
M3DCHUNK_MESH_SMOOTH_GROUP == 16720
M3DCHUNK_MESH_MATRIX == 16736
M3DCHUNK_MATERIAL_ENTRY == 45055
M3DCHUNK_MATERIAL_NAME == 40960
M3DCHUNK_MATERIAL_AMBIENT == 40976
M3DCHUNK_MATERIAL_DIFFUSE == 40992
M3DCHUNK_MATERIAL_SPECULAR == 41008
M3DCHUNK_MATERIAL_SHININESS == 41024
M3DCHUNK_MATERIAL_TRANSPARENCY == 41040
M3DCHUNK_MATERIAL_TEXMAP == 41472
M3DCHUNK_MATERIAL_MAPNAME == 41728
M3DCHUNK_COLOR_FLOAT == 16
M3DCHUNK_COLOR_24 == 17
M3DCHUNK_INT_PERCENTAGE == 48
M3DCHUNK_FLOAT_PERCENTAGE == 49

(***************************************************************************)
(* Bounds of the input corpus.                                             *)
(***************************************************************************)
MaxFaces == 2

VARIABLES
    stream,        \* the bytes of the input, fixed during a run
    in,            \* the std::istream: [pos |-> cursor, good |-> in.good()]
    stack,         \* the call stack, innermost frame last
    ret,           \* the value a call has just returned to the top frame
    pc,            \* "start", "reading" or "done" (Read3DSFile)
    result,        \* what Read3DSFile returned
    lastChunk,     \* history: the read3DSChunk call that returned last
    lastChunks,    \* history: the read3DSChunks call that returned last
    failedChunks,  \* history: header offsets of the chunks read3DSChunk failed on
    skipped,       \* history: handlers whose unknown chunk was skipped
    seen,          \* history: recognised chunks and array entries, in stream order
    everFailed     \* history: some call returned READ_FAILURE

vars == <<stream, in, stack, ret, pc, result,
          lastChunk, lastChunks, failedChunks, skipped, seen, everFailed>>

(***************************************************************************)
(* Little-endian field codecs (celutil/bytes.h).  A float is kept as its   *)
(* four bytes: the reader never computes with one, except to negate,       *)
(* scale or convert it, which is kept symbolic.                            *)
(***************************************************************************)
U16(v) == <<v % 256, (v \div 256) % 256>>

I32(v) ==
    IF v >= 0
    THEN <<v % 256, (v \div 256) % 256, (v \div 65536) % 256, (v \div 16777216) % 256>>
    ELSE LET u == -v - 1
         IN  <<255 - (u % 256), 255 - ((u \div 256) % 256),
               255 - ((u \div 65536) % 256), 255 - ((u \div 16777216) % 256)>>

LE_TO_CPU_UINT16(b) == b[1] + 256 * b[2]

LE_TO_CPU_INT16(b) ==
    IF b[2] >= 128 THEN b[1] + 256 * (b[2] - 256) ELSE b[1] + 256 * b[2]

LE_TO_CPU_INT32(b) ==
    b[1] + 256 * b[2] + 65536 * b[3]
         + 16777216 * (IF b[4] >= 128 THEN b[4] - 256 ELSE b[4])

LE_TO_CPU_FLOAT(b) == [k |-> "f32", b |-> b]

(***************************************************************************)
(* std::istream.  read(n) takes n bytes or, when fewer are left, takes     *)
(* what is left and sets eofbit and failbit; a stream that is not good     *)
(* reads nothing.  ignore(n) skips n bytes or sets eofbit at the end.      *)
(***************************************************************************)
istream_read(s, n) ==
    IF s.good /\ s.pos + n <= Len(stream)
    THEN [ok |-> TRUE, bytes |-> SubSeq(stream, s.pos + 1, s.pos + n),
          in |-> [pos |-> s.pos + n, good |-> TRUE]]
    ELSE [ok |-> FALSE, bytes |-> <<>>,
          in |-> [pos |-> IF s.good THEN Len(stream) ELSE s.pos, good |-> FALSE]]

istream_ignore(s, n) ==
    IF ~s.good \/ n <= 0 THEN s
    ELSE IF s.pos + n <= Len(stream)
    THEN [pos |-> s.pos + n, good |-> TRUE]
    ELSE [pos |-> Len(stream), good |-> FALSE]

(***************************************************************************)
(* Primitive field readers.  Each returns [ok, v, in].                     *)
(***************************************************************************)
readInt(s) ==
    LET r == istream_read(s, 4)
    IN  [ok |-> r.ok, v |-> IF r.ok THEN LE_TO_CPU_INT32(r.bytes) ELSE 0, in |-> r.in]

readShort(s) ==
    LET r == istream_read(s, 2)
    IN  [ok |-> r.ok, v |-> IF r.ok THEN LE_TO_CPU_INT16(r.bytes) ELSE 0, in |-> r.in]

readUshort(s) ==
    LET r == istream_read(s, 2)
    IN  [ok |-> r.ok, v |-> IF r.ok THEN LE_TO_CPU_UINT16(r.bytes) ELSE 0, in |-> r.in]

readFloat(s) ==
    LET r == istream_read(s, 4)
    IN  [ok |-> r.ok,
         v |-> IF r.ok THEN LE_TO_CPU_FLOAT(r.bytes) ELSE LE_TO_CPU_FLOAT(<<0, 0, 0, 0>>),
         in |-> r.in]

readUchar(s) ==
    LET r == istream_read(s, 1)
    IN  [ok |-> r.ok, v |-> IF r.ok THEN r.bytes[1] ELSE 0, in |-> r.in]

(* The byte count readString reports for a name of `count` bytes before   *)
(* its terminator.                                                         *)
(* A variant of StringLength that leaves the terminating zero uncounted. *)
StringLength_NoTerminator(count) == count

StringLength(count) == count + 1

(* Each loop below is a recursion over the stream.  An iteration binds    *)
(* the stream it starts from to its value (s \in {s0}) before it reads.    *)
(* readString: [n |-> bytes consumed or READ_FAILURE, v |-> the name, in]. *)
RECURSIVE readStringLoop(_, _, _)
readStringLoop(s0, count, acc) ==
    IF count >= maxLength
    THEN [n |-> READ_FAILURE, v |-> <<>>, in |-> s0]
    ELSE CHOOSE res \in {LET r == istream_read(s, 1)
                         IN  IF ~r.ok THEN [n |-> READ_FAILURE, v |-> <<>>, in |-> r.in]
                             ELSE IF r.bytes[1] = 0
                             THEN [n |-> StringLength(count), v |-> acc, in |-> r.in]
                             ELSE readStringLoop(r.in, count + 1, Append(acc, r.bytes[1]))
         : s \in {s0}} : TRUE

readString(s) == readStringLoop(s, 0, <<>>)

(***************************************************************************)
(* The scene graph (3dsmodel.h).  Only the operations the reader calls     *)
(* are modelled: construct empty, append a child or an element, set a      *)
(* field, and query the face count.  Every object and element carries     *)
(* `at`, the stream offset of the chunk header or array entry it was read  *)
(* from (a history field the reader itself never looks at).               *)
(***************************************************************************)
DefaultFloat == [k |-> "default", b |-> <<>>]
M3DColor(r, g, b) == [red |-> r, green |-> g, blue |-> b]
DefaultColor == M3DColor(DefaultFloat, DefaultFloat, DefaultFloat)

(* The values an uninitialised float local may hold. *)
Indeterminate == {[k |-> "indeterminate", b |-> <<0>>], [k |-> "indeterminate", b |-> <<1>>]}

M3DScene == [models |-> <<>>, materials |-> <<>>, backgroundColor |-> DefaultColor]
M3DModel(at) == [name |-> <<>>, triMeshes |-> <<>>, at |-> at]
M3DTriangleMesh(at) ==
    [vertices |-> <<>>, texCoords |-> <<>>, faces |-> <<>>, matGroups |-> <<>>,
     smoothingGroups |-> <<>>, matrix |-> <<>>, at |-> at]
M3DMeshMaterialGroup(at) == [materialName |-> <<>>, faces |-> <<>>, at |-> at]
M3DMaterial(at) ==
    [name |-> <<>>, texmap |-> <<>>, ambient |-> DefaultColor, diffuse |-> DefaultColor,
     specular |-> DefaultColor, shininess |-> DefaultFloat, opacity |-> DefaultFloat,
     at |-> at]

addModel(scene, model) == [scene EXCEPT !.models = Append(@, model)]
addMaterial(scene, material) == [scene EXCEPT !.materials = Append(@, material)]
setBackgroundColor(scene, color) == [scene EXCEPT !.backgroundColor = color]
addTriMesh(model, triMesh) == [model EXCEPT !.triMeshes = Append(@, triMesh)]
addVertex(triMesh, v) == [triMesh EXCEPT !.vertices = Append(@, v)]
addTexCoord(triMesh, tc) == [triMesh EXCEPT !.texCoords = Append(@, tc)]
addFace(triMesh, f) == [triMesh EXCEPT !.faces = Append(@, f)]
addSmoothingGroups(triMesh, g) == [triMesh EXCEPT !.smoothingGroups = Append(@, g)]
addMeshMaterialGroup(triMesh, mg) == [triMesh EXCEPT !.matGroups = Append(@, mg)]
getFaceCount(triMesh) == Len(triMesh.faces)
setMatrix(triMesh, m) == [triMesh EXCEPT !.matrix = m]

(* static_cast / implicit conversion to std::uint16_t *)
ToUint16(n) == n % 65536

(***************************************************************************)
(* Leaf readers.  Each returns [n, lit, in, obj]: n is the returned        *)
(* std::int32_t, lit says that n comes from a `return READ_FAILURE` or     *)
(* `return UNKNOWN_CHUNK` statement rather than from a byte count, in is   *)
(* the stream afterwards and obj the object the reader was given.          *)
(***************************************************************************)
Failure(s, obj) == [n |-> READ_FAILURE, lit |-> TRUE, in |-> s, obj |-> obj]
Unknown(s, obj) == [n |-> UNKNOWN_CHUNK, lit |-> TRUE, in |-> s, obj |-> obj]
Count(n, s, obj) == [n |-> n, lit |-> FALSE, in |-> s, obj |-> obj]

readColor(s, color) ==
    LET r == readUchar(s)
        g == readUchar(r.in)
        b == readUchar(g.in)
    IN  IF ~r.ok \/ ~g.ok \/ ~b.ok THEN Failure(b.in, color)
        ELSE Count(3, b.in, M3DColor([k |-> "u8/255", b |-> <<r.v>>],
                                     [k |-> "u8/255", b |-> <<g.v>>],
                                     [k |-> "u8/255", b |-> <<b.v>>]))

readFloatColor(s, color) ==
    LET r == readFloat(s)
        g == readFloat(r.in)
        b == readFloat(g.in)
    IN  IF ~r.ok \/ ~g.ok \/ ~b.ok THEN Failure(b.in, color)
        ELSE Count(3 * 4, b.in, M3DColor(r.v, g.v, b.v))

RECURSIVE readMeshMatrixLoop(_, _, _)
readMeshMatrixLoop(s0, i, elements) ==
    IF i >= 12 THEN Count(12 * 4, s0, elements)
    ELSE CHOOSE res \in {LET r == readFloat(s)
                         IN  IF ~r.ok THEN Failure(r.in, elements)
                             ELSE readMeshMatrixLoop(r.in, i + 1, Append(elements, r.v))
         : s \in {s0}} : TRUE

readMeshMatrix(s) == readMeshMatrixLoop(s, 0, <<>>)

RECURSIVE readPointArrayLoop(_, _, _, _, _)
readPointArrayLoop(s0, i, nPoints, bytesRead, triMesh) ==
    IF i >= nPoints THEN Count(bytesRead, s0, triMesh)
    ELSE CHOOSE res \in {LET x == readFloat(s)
                             y == readFloat(x.in)
                             z == readFloat(y.in)
                         IN  IF ~x.ok \/ ~y.ok \/ ~z.ok THEN Failure(z.in, triMesh)
                             ELSE readPointArrayLoop(z.in, i + 1, nPoints, bytesRead + 3 * 4,
                                      addVertex(triMesh, [v |-> <<x.v, y.v, z.v>>, at |-> s.pos]))
         : s \in {s0}} : TRUE

readPointArray(s, triMesh) ==
    LET nPoints == readUshort(s)
    IN  IF ~nPoints.ok THEN Failure(nPoints.in, triMesh)
        ELSE readPointArrayLoop(nPoints.in, 0, nPoints.v, 2, triMesh)

RECURSIVE readTextureCoordArrayLoop(_, _, _, _, _)
readTextureCoordArrayLoop(s0, i, nPoints, bytesRead, triMesh) ==
    IF i >= nPoints THEN Count(bytesRead, s0, triMesh)
    ELSE CHOOSE res \in {LET u == readFloat(s)
                             v == readFloat(u.in)
                         IN  IF ~u.ok \/ ~v.ok THEN Failure(v.in, triMesh)
                             ELSE readTextureCoordArrayLoop(v.in, i + 1, nPoints, bytesRead + 2 * 4,
                                      addTexCoord(triMesh, [v |-> <<u.v, [k |-> "neg", b |-> v.v.b]>>,
                                                            at |-> s.pos]))
         : s \in {s0}} : TRUE

readTextureCoordArray(s, triMesh) ==
    LET nPoints == readUshort(s)
    IN  IF ~nPoints.ok THEN Failure(nPoints.in, triMesh)
        ELSE readTextureCoordArrayLoop(nPoints.in, 0, nPoints.v, 0 + 2, triMesh)

(***************************************************************************)
(* processFaceArrayChunk, the handler of the chunks that trail a face      *)
(* list, and the face list of readFaceArray.                               *)
(***************************************************************************)
RECURSIVE readMaterialGroupLoop(_, _, _, _, _)
readMaterialGroupLoop(s0, i, nFaces, bytesRead, matGroup) ==
    IF i >= nFaces THEN Count(bytesRead, s0, matGroup)
    ELSE CHOOSE res \in {LET faceIndex == readUshort(s)
                         IN  IF ~faceIndex.ok THEN Failure(faceIndex.in, matGroup)
                             ELSE readMaterialGroupLoop(faceIndex.in, i + 1, nFaces, bytesRead + 2,
                                      [matGroup EXCEPT !.faces = Append(@, faceIndex.v)])
         : s \in {s0}} : TRUE

RECURSIVE readSmoothGroupLoop(_, _, _, _, _)
readSmoothGroupLoop(s0, i, nFaces, bytesRead, triMesh) ==
    IF i >= nFaces THEN Count(bytesRead, s0, triMesh)
    ELSE CHOOSE res \in {LET groups == readInt(s)
                         IN  IF ~groups.ok \/ groups.v < 0 THEN Failure(groups.in, triMesh)
                             ELSE readSmoothGroupLoop(groups.in, i + 1, nFaces, bytesRead + 4,
                                      addSmoothingGroups(triMesh, groups.v))
         : s \in {s0}} : TRUE

(* A variant of SmoothGroupCount that counts the mesh's vertices. *)
SmoothGroupCount_Vertices(triMesh) == ToUint16(Len(triMesh.vertices))

(* The number of 32-bit values a smoothing-group chunk is read as. *)
SmoothGroupCount(triMesh) == ToUint16(getFaceCount(triMesh))

processFaceArrayChunk(s, chunkType, triMesh, at) ==
    IF chunkType = M3DCHUNK_MESH_MATERIAL_GROUP
    THEN LET name == readString(s)
             nFaces == readUshort(name.in)
         IN  IF name.n = READ_FAILURE THEN Failure(name.in, triMesh)
             ELSE IF ~nFaces.ok THEN Failure(nFaces.in, triMesh)
             ELSE LET r == readMaterialGroupLoop(nFaces.in, 0, nFaces.v, name.n + 2,
                               [M3DMeshMaterialGroup(at) EXCEPT !.materialName = name.v])
                  IN  IF r.lit THEN Failure(r.in, triMesh)
                      ELSE Count(r.n, r.in, addMeshMaterialGroup(triMesh, r.obj))
    ELSE IF chunkType = M3DCHUNK_MESH_SMOOTH_GROUP
    THEN readSmoothGroupLoop(s, 0, SmoothGroupCount(triMesh), 0, triMesh)
    ELSE Unknown(s, triMesh)

RECURSIVE readFaceArrayLoop(_, _, _, _, _)
readFaceArrayLoop(s0, i, nFaces, bytesRead, triMesh) ==
    IF i >= nFaces THEN Count(bytesRead, s0, triMesh)
    ELSE CHOOSE res \in {LET v0 == readUshort(s)
                             v1 == readUshort(v0.in)
                             v2 == readUshort(v1.in)
                             flags == readUshort(v2.in)
                         IN  IF ~v0.ok \/ ~v1.ok \/ ~v2.ok \/ ~flags.ok THEN Failure(flags.in, triMesh)
                             ELSE readFaceArrayLoop(flags.in, i + 1, nFaces, bytesRead + 4 * 2,
                                      addFace(triMesh, [v |-> <<v0.v, v1.v, v2.v>>, at |-> s.pos]))
         : s \in {s0}} : TRUE

(* readFaceArray up to its check of bytesRead against contentSize; the     *)
(* declared face count is reported in nFaces.                              *)
readFaceArrayFaces(s, triMesh) ==
    LET nFaces == readUshort(s)
    IN  IF ~nFaces.ok THEN [res |-> Failure(nFaces.in, triMesh), nFaces |-> 0]
        ELSE [res |-> readFaceArrayLoop(nFaces.in, 0, nFaces.v, 2, triMesh),
              nFaces |-> nFaces.v]

(* A variant of FaceArrayTotal that drops the face list's own byte count. *)
FaceArrayTotal_TrailerOnly(bytesRead, trailingSize) == trailingSize

(* What readFaceArray returns once the chunks trailing its face list have  *)
(* been read: bytesRead += trailingSize; return bytesRead.                 *)
FaceArrayTotal(bytesRead, trailingSize) == bytesRead + trailingSize

(***************************************************************************)
(* The remaining leaf handlers.                                            *)
(***************************************************************************)
processColorChunk(s, chunkType, color) ==
    IF chunkType = M3DCHUNK_COLOR_24 THEN readColor(s, color)
    ELSE IF chunkType = M3DCHUNK_COLOR_FLOAT THEN readFloatColor(s, color)
    ELSE Unknown(s, color)

processPercentageChunk(s, chunkType, percent) ==
    IF chunkType = M3DCHUNK_INT_PERCENTAGE
    THEN LET value == readShort(s)
         IN  IF ~value.ok THEN Failure(value.in, percent)
             ELSE Count(2, value.in, [k |-> "i16", b |-> <<value.v>>])
    ELSE IF chunkType = M3DCHUNK_FLOAT_PERCENTAGE
    THEN LET value == readFloat(s)
         IN  IF value.ok THEN Count(4, value.in, value.v) ELSE Failure(value.in, percent)
    ELSE Unknown(s, percent)

processTexmapChunk(s, chunkType, material) ==
    IF chunkType = M3DCHUNK_MATERIAL_MAPNAME
    THEN LET name == readString(s)
         IN  IF name.n < 0 THEN Failure(name.in, material)
             ELSE Count(name.n, name.in, [material EXCEPT !.texmap = name.v])
    ELSE Unknown(s, material)

(* The cases of processTriMeshChunk that read no nested chunks. *)
processTriMeshLeaf(s, chunkType, triMesh) ==
    IF chunkType = M3DCHUNK_POINT_ARRAY THEN readPointArray(s, triMesh)
    ELSE IF chunkType = M3DCHUNK_MESH_TEXTURE_COORDS THEN readTextureCoordArray(s, triMesh)
    ELSE IF chunkType = M3DCHUNK_MESH_MATRIX
    THEN LET m == readMeshMatrix(s)
         IN  IF m.n < 0 THEN Failure(m.in, triMesh)
             ELSE Count(m.n, m.in, setMatrix(triMesh, m.obj))
    ELSE Unknown(s, triMesh)

(***************************************************************************)
(* The call stack.  A frame is a record; `obj` is the T* a function was    *)
(* given: the index of the frame whose `local` holds the object.           *)
(***************************************************************************)
Top == stack[Len(stack)]
Pop == SubSeq(stack, 1, Len(stack) - 1)
NoRet == [kind |-> "none", v |-> 0]
Returned == ret.kind # "none"
Sentinel(v) == [kind |-> "sentinel", v |-> v]
ByteCount(v) == [kind |-> "count", v |-> v]
RetOf(res) == IF res.lit THEN Sentinel(res.n) ELSE ByteCount(res.n)
nullptr == [ok |-> FALSE, scene |-> M3DScene]

(* A variant of ChunksFrame in which the chunks trailing a face list are    *)
(* handed to the handler of the enclosing mesh again.                      *)
ChunksFrame_SameLevel(handler, obj, nBytes, entry) ==
    [fn |-> "read3DSChunks",
     handler |-> IF handler = "processFaceArrayChunk" THEN "processTriMeshChunk"
                 ELSE handler,
     obj |-> obj, nBytes |-> nBytes, bytesRead |-> 0, entry |-> entry, sizes |-> <<>>]

ChunksFrame(handler, obj, nBytes, entry) ==
    [fn |-> "read3DSChunks", handler |-> handler, obj |-> obj, nBytes |-> nBytes,
     bytesRead |-> 0, entry |-> entry, sizes |-> <<>>]

ChunkFrame(handler, obj, start) ==
    [fn |-> "read3DSChunk", handler |-> handler, obj |-> obj, pc |-> "header",
     chunkType |-> 0, chunkSize |-> 0, contentSize |-> 0, start |-> start]

InHandler(h) ==
    /\ pc = "reading"
    /\ Top.fn = "read3DSChunk"
    /\ Top.pc = "handler"
    /\ Top.handler = h
    /\ ~Returned

NoChunk == [valid |-> FALSE]
NoChunks == [valid |-> FALSE]

(* everFailed records that a call returned READ_FAILURE or that the       *)
(* stream left its good state.  Every action ends with it.                 *)
TrackFailure ==
    everFailed' = (everFailed \/ (ret'.kind # "none" /\ ret'.v = READ_FAILURE)
                              \/ ~in'.good)

(***************************************************************************)
(* Read3DSFile(std::istream&).                                             *)
(***************************************************************************)
(* A variant of ReadFileHeader that reads both header fields before it      *)
(* looks at the first.                                                     *)
ReadFileHeader_SizeFirst(s) ==
    LET chunkType == readUshort(s)
        chunkSize == readInt(chunkType.in)
    IN  IF ~chunkType.ok \/ ~chunkSize.ok \/ chunkType.v # M3DCHUNK_MAGIC \/ chunkSize.v < 6
        THEN [ok |-> FALSE, contentSize |-> 0, in |-> chunkSize.in]
        ELSE [ok |-> TRUE, contentSize |-> chunkSize.v - 6, in |-> chunkSize.in]

(* The header checks of Read3DSFile: [ok, contentSize, in]. *)
ReadFileHeader(s) ==
    LET chunkType == readUshort(s)
        chunkSize == readInt(chunkType.in)
    IN  IF ~chunkType.ok \/ chunkType.v # M3DCHUNK_MAGIC
        THEN [ok |-> FALSE, contentSize |-> 0, in |-> chunkType.in]
        ELSE IF ~chunkSize.ok \/ chunkSize.v < 6
        THEN [ok |-> FALSE, contentSize |-> 0, in |-> chunkSize.in]
        ELSE [ok |-> TRUE, contentSize |-> chunkSize.v - 6, in |-> chunkSize.in]

Read3DSFile_Begin ==
    /\ pc = "start"
    /\ LET h == ReadFileHeader(in)
       IN  /\ in' = h.in
           /\ IF h.ok
              THEN /\ stack' = <<[fn |-> "Read3DSFile", contentSize |-> h.contentSize,
                                  local |-> M3DScene],
                                 ChunksFrame("processTopLevelChunk", 1, h.contentSize,
                                             h.in.pos)>>
                   /\ pc' = "reading"
                   /\ UNCHANGED result
              ELSE /\ pc' = "done"
                   /\ result' = nullptr
                   /\ UNCHANGED stack
    /\ UNCHANGED <<stream, ret, lastChunk, lastChunks, failedChunks, skipped, seen>>
    /\ TrackFailure

(* The scene Read3DSFile returns for what read3DSChunks returned. *)
FileResult(bytesRead, contentSize, scene) ==
    IF bytesRead < 0 THEN nullptr
    ELSE IF bytesRead # contentSize THEN nullptr
    ELSE [ok |-> TRUE, scene |-> scene]

Read3DSFile_End ==
    /\ pc = "reading"
    /\ Top.fn = "Read3DSFile"
    /\ Returned
    /\ result' = FileResult(ret.v, Top.contentSize, Top.local)
    /\ pc' = "done"
    /\ stack' = <<>>
    /\ ret' = NoRet
    /\ UNCHANGED <<stream, in, lastChunk, lastChunks, failedChunks, skipped, seen>>
    /\ TrackFailure

(***************************************************************************)
(* read3DSChunks: the loop over sibling chunks.                            *)
(***************************************************************************)
(* The value read3DSChunks returns when its loop ends. *)
(* A variant of ChunksResult that only rejects a total short of the budget. *)
ChunksResult_AtLeast(bytesRead, nBytes) ==
    IF bytesRead < nBytes THEN [kind |-> "sentinel", v |-> READ_FAILURE]
    ELSE [kind |-> "count", v |-> bytesRead]

ChunksResult(bytesRead, nBytes) ==
    IF bytesRead # nBytes THEN Sentinel(READ_FAILURE) ELSE ByteCount(bytesRead)

ChunksReturn(f, r, s, chunkFailed) ==
    [valid |-> TRUE, handler |-> f.handler, nBytes |-> f.nBytes, sizes |-> f.sizes,
     chunkFailed |-> chunkFailed,
     bytesRead |-> f.bytesRead, entry |-> f.entry, returned |-> r.v, endPos |-> s.pos,
     good |-> s.good]

(* while (bytesRead < nBytes) { chunkSize = read3DSChunk(...) *)
read3DSChunks_Call ==
    /\ pc = "reading"
    /\ Top.fn = "read3DSChunks"
    /\ ~Returned
    /\ Top.bytesRead < Top.nBytes
    /\ stack' = Append(stack, ChunkFrame(Top.handler, Top.obj, in.pos))
    /\ UNCHANGED <<stream, in, ret, pc, result,
                   lastChunk, lastChunks, failedChunks, skipped, seen>>
    /\ TrackFailure

(* if (chunkSize < 0) return READ_FAILURE; bytesRead += chunkSize; } *)
read3DSChunks_Accumulate ==
    /\ pc = "reading"
    /\ Top.fn = "read3DSChunks"
    /\ Returned
    /\ IF ret.v < 0
       THEN /\ stack' = Pop
            /\ ret' = Sentinel(READ_FAILURE)
            /\ lastChunks' = ChunksReturn(Top, Sentinel(READ_FAILURE), in, TRUE)
       ELSE /\ stack' = [stack EXCEPT ![Len(stack)].bytesRead = @ + ret.v,
                                      ![Len(stack)].sizes = Append(@, ret.v)]
            /\ ret' = NoRet
            /\ UNCHANGED lastChunks
    /\ UNCHANGED <<stream, in, pc, result, lastChunk, failedChunks, skipped, seen>>
    /\ TrackFailure

(* The loop has ended: compare the total with the budget and return. *)
read3DSChunks_Return ==
    /\ pc = "reading"
    /\ Top.fn = "read3DSChunks"
    /\ ~Returned
    /\ ~(Top.bytesRead < Top.nBytes)
    /\ stack' = Pop
    /\ ret' = ChunksResult(Top.bytesRead, Top.nBytes)
    /\ lastChunks' = ChunksReturn(Top, ChunksResult(Top.bytesRead, Top.nBytes), in,
                                FALSE)
    /\ UNCHANGED <<stream, in, pc, result, lastChunk, failedChunks, skipped, seen>>
    /\ TrackFailure

(***************************************************************************)
(* read3DSChunk: one header, the handler, and the reconciliation of what   *)
(* the handler returned with the declared content size.                    *)
(***************************************************************************)
(* A variant of ReadChunkHeader that rejects only a negative size. *)
ReadChunkHeader_NonNegative(s) ==
    LET chunkType == readUshort(s)
        chunkSize == readInt(chunkType.in)
    IN  IF ~chunkType.ok THEN [ok |-> FALSE, chunkType |-> 0, chunkSize |-> 0,
                               in |-> chunkType.in]
        ELSE IF ~chunkSize.ok \/ chunkSize.v < 0
        THEN [ok |-> FALSE, chunkType |-> chunkType.v, chunkSize |-> chunkSize.v,
              in |-> chunkSize.in]
        ELSE [ok |-> TRUE, chunkType |-> chunkType.v, chunkSize |-> chunkSize.v,
              in |-> chunkSize.in]

(* [ok, chunkType, chunkSize, in] *)
ReadChunkHeader(s) ==
    LET chunkType == readUshort(s)
        chunkSize == readInt(chunkType.in)
    IN  IF ~chunkType.ok THEN [ok |-> FALSE, chunkType |-> 0, chunkSize |-> 0,
                               in |-> chunkType.in]
        ELSE IF ~chunkSize.ok \/ chunkSize.v < 6
        THEN [ok |-> FALSE, chunkType |-> chunkType.v, chunkSize |-> chunkSize.v,
              in |-> chunkSize.in]
        ELSE [ok |-> TRUE, chunkType |-> chunkType.v, chunkSize |-> chunkSize.v,
              in |-> chunkSize.in]

(* The face count of the mesh a face-array trailer chunk works on, and the *)
(* face count its face-array chunk declared (history for lastChunk).       *)
MeshFaces(f) ==
    IF f.handler = "processFaceArrayChunk" THEN getFaceCount(stack[f.obj].local) ELSE 0
DeclaredFaces(f) ==
    IF f.handler = "processFaceArrayChunk" THEN stack[Len(stack) - 2].nFaces ELSE 0

ChunkReturn(f, processed, handlerEnd, r, s) ==
    [valid |-> TRUE, handler |-> f.handler, chunkType |-> f.chunkType, start |-> f.start,
     chunkSize |-> f.chunkSize, contentSize |-> f.contentSize,
     processed |-> processed, handlerEnd |-> handlerEnd,
     returned |-> r, endPos |-> s.pos, meshFaces |-> MeshFaces(f),
     declaredFaces |-> DeclaredFaces(f)]

read3DSChunk_Header ==
    /\ pc = "reading"
    /\ Top.fn = "read3DSChunk"
    /\ Top.pc = "header"
    /\ LET h == ReadChunkHeader(in)
       IN  /\ in' = h.in
           /\ IF h.ok
              THEN /\ stack' = [stack EXCEPT ![Len(stack)] =
                                   [@ EXCEPT !.pc = "handler", !.chunkType = h.chunkType,
                                             !.chunkSize = h.chunkSize,
                                             !.contentSize = h.chunkSize - HeaderSize]]
                   /\ UNCHANGED <<ret, lastChunk, failedChunks>>
              ELSE /\ stack' = Pop
                   /\ ret' = Sentinel(READ_FAILURE)
                   /\ lastChunk' = ChunkReturn([Top EXCEPT !.chunkType = h.chunkType,
                                                           !.chunkSize = h.chunkSize],
                                               NoRet, h.in.pos, READ_FAILURE, h.in)
                   /\ failedChunks' = failedChunks \cup {Top.start}
    /\ UNCHANGED <<stream, pc, result, lastChunks, skipped, seen>>
    /\ TrackFailure

(* Variants of the two definitions below, which the properties must tell   *)
(* from them: a skip that also steps over a header's length, a return of   *)
(* the content size, and a check that lets a short count through.          *)
SkipUnknown_WithHeader(s, contentSize) == istream_ignore(s, contentSize + HeaderSize)

Reconcile_ContentSize(processedSize, contentSize, chunkSize, s) ==
    IF processedSize = READ_FAILURE THEN READ_FAILURE
    ELSE IF processedSize = UNKNOWN_CHUNK
    THEN (IF s.good THEN chunkSize ELSE READ_FAILURE)
    ELSE IF processedSize # contentSize THEN READ_FAILURE
    ELSE contentSize

Reconcile_AtMost(processedSize, contentSize, chunkSize, s) ==
    IF processedSize = READ_FAILURE THEN READ_FAILURE
    ELSE IF processedSize = UNKNOWN_CHUNK
    THEN (IF s.good THEN chunkSize ELSE READ_FAILURE)
    ELSE IF processedSize > contentSize THEN READ_FAILURE
    ELSE chunkSize

(* The stream after the switch on processedSize: an unknown chunk's        *)
(* content is skipped with in.ignore(contentSize).                         *)
SkipUnknown(s, contentSize) == istream_ignore(s, contentSize)

(* What read3DSChunk returns for what the handler returned, the stream     *)
(* being s after the switch.                                               *)
Reconcile(processedSize, contentSize, chunkSize, s) ==
    IF processedSize = READ_FAILURE THEN READ_FAILURE
    ELSE IF processedSize = UNKNOWN_CHUNK
    THEN (IF s.good THEN chunkSize ELSE READ_FAILURE)
    ELSE IF processedSize # contentSize THEN READ_FAILURE
    ELSE chunkSize

read3DSChunk_Return ==
    /\ pc = "reading"
    /\ Top.fn = "read3DSChunk"
    /\ Top.pc = "handler"
    /\ Returned
    /\ LET s == IF ret.v = UNKNOWN_CHUNK THEN SkipUnknown(in, Top.contentSize) ELSE in
           r == Reconcile(ret.v, Top.contentSize, Top.chunkSize, s)
       IN  /\ in' = s
           /\ ret' = IF r = READ_FAILURE THEN Sentinel(r) ELSE ByteCount(r)
           /\ lastChunk' = ChunkReturn(Top, ret, in.pos, r, s)
           /\ failedChunks' = IF r = READ_FAILURE THEN failedChunks \cup {Top.start}
                              ELSE failedChunks
           /\ skipped' = IF ret.v = UNKNOWN_CHUNK /\ r # READ_FAILURE
                         THEN skipped \cup {Top.handler} ELSE skipped
    /\ stack' = Pop
    /\ UNCHANGED <<stream, pc, result, lastChunks, seen>>
    /\ TrackFailure

(***************************************************************************)
(* The level handlers.  Run_h is handler h from its entry to its return    *)
(* or to its nested read3DSChunks call; Resume_h is h from the return of   *)
(* that call to its own return.                                            *)
(***************************************************************************)
SetLocal(stk, p, v) == [stk EXCEPT ![p].local = v]
Saw(kind, at) == Append(seen, [kind |-> kind, at |-> at])

Run_processTopLevelChunk ==
    /\ InHandler("processTopLevelChunk")
    /\ IF Top.chunkType = M3DCHUNK_MESHDATA
       THEN /\ stack' = Append(stack, ChunksFrame("processSceneChunk", Top.obj,
                                                  Top.contentSize, in.pos))
            /\ UNCHANGED ret
       ELSE /\ ret' = Sentinel(UNKNOWN_CHUNK)
            /\ UNCHANGED stack
    /\ UNCHANGED <<stream, in, pc, result,
                   lastChunk, lastChunks, failedChunks, skipped, seen>>
    /\ TrackFailure

Run_processSceneChunk ==
    /\ InHandler("processSceneChunk")
    /\ LET f == Top
           n == Len(stack)
           name == readString(in)
           frame(local, bytesRead) ==
               [fn |-> "processSceneChunk", chunkType |-> f.chunkType, obj |-> f.obj,
                bytesRead |-> bytesRead, local |-> local]
       IN  CASE f.chunkType = M3DCHUNK_NAMED_OBJECT ->
                  /\ in' = name.in
                  /\ seen' = Saw("model", f.start)
                  /\ IF name.n < 0
                     THEN /\ ret' = Sentinel(READ_FAILURE)
                          /\ UNCHANGED stack
                     ELSE /\ stack' = stack \o
                               <<frame([M3DModel(f.start) EXCEPT !.name = name.v], name.n),
                                 ChunksFrame("processModelChunk", n + 1,
                                             f.contentSize - name.n, name.in.pos)>>
                          /\ UNCHANGED ret
             [] f.chunkType = M3DCHUNK_MATERIAL_ENTRY ->
                  /\ stack' = stack \o
                         <<frame(M3DMaterial(f.start), 0),
                           ChunksFrame("processMaterialChunk", n + 1, f.contentSize, in.pos)>>
                  /\ seen' = Saw("material", f.start)
                  /\ UNCHANGED <<in, ret>>
             [] f.chunkType = M3DCHUNK_BACKGROUND_COLOR ->
                  /\ stack' = stack \o
                         <<frame(DefaultColor, 0),
                           ChunksFrame("processColorChunk", n + 1, f.contentSize, in.pos)>>
                  /\ UNCHANGED <<in, ret, seen>>
             [] OTHER ->
                  /\ ret' = Sentinel(UNKNOWN_CHUNK)
                  /\ UNCHANGED <<in, stack, seen>>
    /\ UNCHANGED <<stream, pc, result, lastChunk, lastChunks, failedChunks, skipped>>
    /\ TrackFailure

(* A variant of processSceneChunkEnd that adds the model before it tests    *)
(* chunksSize.                                                             *)
processSceneChunkEnd_AddFirst(f, chunksSize, scene) ==
    IF f.chunkType = M3DCHUNK_NAMED_OBJECT
    THEN [ret |-> IF chunksSize < 0 THEN Sentinel(READ_FAILURE)
                  ELSE ByteCount(f.bytesRead + chunksSize),
          scene |-> addModel(scene, f.local)]
    ELSE IF chunksSize < 0 THEN [ret |-> Sentinel(READ_FAILURE), scene |-> scene]
    ELSE IF f.chunkType = M3DCHUNK_MATERIAL_ENTRY
    THEN [ret |-> ByteCount(chunksSize), scene |-> addMaterial(scene, f.local)]
    ELSE [ret |-> ByteCount(chunksSize), scene |-> setBackgroundColor(scene, f.local)]

(* A variant of processSceneChunkEnd that hands no material to the scene. *)
processSceneChunkEnd_NoMaterial(f, chunksSize, scene) ==
    IF chunksSize < 0 THEN [ret |-> Sentinel(READ_FAILURE), scene |-> scene]
    ELSE IF f.chunkType = M3DCHUNK_NAMED_OBJECT
    THEN [ret |-> ByteCount(f.bytesRead + chunksSize), scene |-> addModel(scene, f.local)]
    ELSE IF f.chunkType = M3DCHUNK_MATERIAL_ENTRY
    THEN [ret |-> ByteCount(chunksSize), scene |-> scene]
    ELSE [ret |-> ByteCount(chunksSize), scene |-> setBackgroundColor(scene, f.local)]

(* processSceneChunk after its nested read3DSChunks returned chunksSize:   *)
(* [ret, scene].                                                           *)
processSceneChunkEnd(f, chunksSize, scene) ==
    IF chunksSize < 0 THEN [ret |-> Sentinel(READ_FAILURE), scene |-> scene]
    ELSE IF f.chunkType = M3DCHUNK_NAMED_OBJECT
    THEN [ret |-> ByteCount(f.bytesRead + chunksSize), scene |-> addModel(scene, f.local)]
    ELSE IF f.chunkType = M3DCHUNK_MATERIAL_ENTRY
    THEN [ret |-> ByteCount(chunksSize), scene |-> addMaterial(scene, f.local)]
    ELSE [ret |-> ByteCount(chunksSize), scene |-> setBackgroundColor(scene, f.local)]

Resume_processSceneChunk ==
    /\ pc = "reading"
    /\ Top.fn = "processSceneChunk"
    /\ Returned
    /\ LET e == processSceneChunkEnd(Top, ret.v, stack[Top.obj].local)
       IN  /\ stack' = SetLocal(Pop, Top.obj, e.scene)
           /\ ret' = e.ret
    /\ UNCHANGED <<stream, in, pc, result,
                   lastChunk, lastChunks, failedChunks, skipped, seen>>
    /\ TrackFailure

Run_processModelChunk ==
    /\ InHandler("processModelChunk")
    /\ IF Top.chunkType = M3DCHUNK_TRIANGLE_MESH
       THEN /\ stack' = stack \o
                   <<[fn |-> "processModelChunk", obj |-> Top.obj,
                      local |-> M3DTriangleMesh(Top.start)],
                     ChunksFrame("processTriMeshChunk", Len(stack) + 1,
                                 Top.contentSize, in.pos)>>
            /\ seen' = Saw("trimesh", Top.start)
            /\ UNCHANGED ret
       ELSE /\ ret' = Sentinel(UNKNOWN_CHUNK)
            /\ UNCHANGED <<stack, seen>>
    /\ UNCHANGED <<stream, in, pc, result, lastChunk, lastChunks, failedChunks, skipped>>
    /\ TrackFailure

(* A variant of processModelChunkEnd that adds the mesh before it tests     *)
(* bytesRead.                                                              *)
processModelChunkEnd_AddFirst(f, bytesRead, model) ==
    [ret |-> IF bytesRead = READ_FAILURE THEN Sentinel(READ_FAILURE)
             ELSE ByteCount(bytesRead),
     model |-> addTriMesh(model, f.local)]

(* processModelChunk after read3DSChunks returned bytesRead: [ret, model]. *)
processModelChunkEnd(f, bytesRead, model) ==
    IF bytesRead = READ_FAILURE THEN [ret |-> Sentinel(READ_FAILURE), model |-> model]
    ELSE [ret |-> ByteCount(bytesRead), model |-> addTriMesh(model, f.local)]

Resume_processModelChunk ==
    /\ pc = "reading"
    /\ Top.fn = "processModelChunk"
    /\ Returned
    /\ LET e == processModelChunkEnd(Top, ret.v, stack[Top.obj].local)
       IN  /\ stack' = SetLocal(Pop, Top.obj, e.model)
           /\ ret' = e.ret
    /\ UNCHANGED <<stream, in, pc, result,
                   lastChunk, lastChunks, failedChunks, skipped, seen>>
    /\ TrackFailure

Run_processTriMeshChunk ==
    /\ InHandler("processTriMeshChunk")
    /\ LET f == Top
           triMesh == stack[f.obj].local
       IN  IF f.chunkType = M3DCHUNK_FACE_ARRAY
           THEN LET fa == readFaceArrayFaces(in, triMesh)
                    bytesRead == fa.res.n
                    stk == SetLocal(stack, f.obj, fa.res.obj)
                IN  /\ in' = fa.res.in
                    /\ seen' = Saw("faces", f.start)
                    /\ IF fa.res.lit \/ bytesRead > f.contentSize
                       THEN /\ ret' = Sentinel(READ_FAILURE)
                            /\ stack' = stk
                       ELSE IF bytesRead < f.contentSize
                       THEN /\ stack' = stk \o
                                  <<[fn |-> "readFaceArray", obj |-> f.obj,
                                     bytesRead |-> bytesRead, nFaces |-> fa.nFaces],
                                    ChunksFrame("processFaceArrayChunk", f.obj,
                                                f.contentSize - bytesRead, fa.res.in.pos)>>
                            /\ UNCHANGED ret
                       ELSE /\ ret' = ByteCount(bytesRead)
                            /\ stack' = stk
           ELSE LET res == processTriMeshLeaf(in, f.chunkType, triMesh)
                IN  /\ in' = res.in
                    /\ ret' = RetOf(res)
                    /\ stack' = SetLocal(stack, f.obj, res.obj)
                    /\ seen' = IF f.chunkType = M3DCHUNK_POINT_ARRAY
                               THEN Saw("points", f.start) ELSE seen
    /\ UNCHANGED <<stream, pc, result, lastChunk, lastChunks, failedChunks, skipped>>
    /\ TrackFailure

Resume_readFaceArray ==
    /\ pc = "reading"
    /\ Top.fn = "readFaceArray"
    /\ Returned
    /\ stack' = Pop
    /\ ret' = ByteCount(FaceArrayTotal(Top.bytesRead, ret.v))
    /\ UNCHANGED <<stream, in, pc, result,
                   lastChunk, lastChunks, failedChunks, skipped, seen>>
    /\ TrackFailure

Run_processFaceArrayChunk ==
    /\ InHandler("processFaceArrayChunk")
    /\ LET res == processFaceArrayChunk(in, Top.chunkType, stack[Top.obj].local, Top.start)
       IN  /\ in' = res.in
           /\ ret' = RetOf(res)
           /\ stack' = SetLocal(stack, Top.obj, res.obj)
    /\ seen' = IF Top.chunkType = M3DCHUNK_MESH_MATERIAL_GROUP
               THEN Saw("matgroup", Top.start) ELSE seen
    /\ UNCHANGED <<stream, pc, result, lastChunk, lastChunks, failedChunks, skipped>>
    /\ TrackFailure

ColorChunks == {M3DCHUNK_MATERIAL_AMBIENT, M3DCHUNK_MATERIAL_DIFFUSE,
                M3DCHUNK_MATERIAL_SPECULAR}
PercentageChunks == {M3DCHUNK_MATERIAL_SHININESS, M3DCHUNK_MATERIAL_TRANSPARENCY}

Run_processMaterialChunk ==
    /\ InHandler("processMaterialChunk")
    /\ LET f == Top
           n == Len(stack)
           name == readString(in)
           frame(local) == [fn |-> "processMaterialChunk", chunkType |-> f.chunkType,
                            obj |-> f.obj, local |-> local]
       IN  CASE f.chunkType = M3DCHUNK_MATERIAL_NAME ->
                  /\ in' = name.in
                  /\ IF name.n < 0
                     THEN /\ ret' = Sentinel(READ_FAILURE)
                          /\ UNCHANGED stack
                     ELSE /\ ret' = ByteCount(name.n)
                          /\ stack' = SetLocal(stack, f.obj,
                                          [stack[f.obj].local EXCEPT !.name = name.v])
             [] f.chunkType \in ColorChunks ->
                  /\ stack' = stack \o
                         <<frame(DefaultColor),
                           ChunksFrame("processColorChunk", n + 1, f.contentSize, in.pos)>>
                  /\ UNCHANGED <<in, ret>>
             [] f.chunkType \in PercentageChunks ->
                  /\ \E t \in Indeterminate :
                        stack' = stack \o
                         <<frame(t),
                           ChunksFrame("processPercentageChunk", n + 1, f.contentSize,
                                       in.pos)>>
                  /\ UNCHANGED <<in, ret>>
             [] f.chunkType = M3DCHUNK_MATERIAL_TEXMAP ->
                  /\ stack' = Append(stack, ChunksFrame("processTexmapChunk", f.obj,
                                                        f.contentSize, in.pos))
                  /\ UNCHANGED <<in, ret>>
             [] OTHER ->
                  /\ ret' = Sentinel(UNKNOWN_CHUNK)
                  /\ UNCHANGED <<in, stack>>
    /\ UNCHANGED <<stream, pc, result,
                   lastChunk, lastChunks, failedChunks, skipped, seen>>
    /\ TrackFailure

(* processMaterialChunk after its nested read3DSChunks returned bytesRead: *)
(* [ret, material].                                                        *)
processMaterialChunkEnd(f, bytesRead, material) ==
    IF bytesRead < 0 THEN [ret |-> Sentinel(READ_FAILURE), material |-> material]
    ELSE [ret |-> ByteCount(bytesRead),
          material |->
            CASE f.chunkType = M3DCHUNK_MATERIAL_AMBIENT ->
                   [material EXCEPT !.ambient = f.local]
              [] f.chunkType = M3DCHUNK_MATERIAL_DIFFUSE ->
                   [material EXCEPT !.diffuse = f.local]
              [] f.chunkType = M3DCHUNK_MATERIAL_SPECULAR ->
                   [material EXCEPT !.specular = f.local]
              [] f.chunkType = M3DCHUNK_MATERIAL_SHININESS ->
                   [material EXCEPT !.shininess = f.local]
              [] OTHER ->
                   [material EXCEPT !.opacity = [k |-> "1-t/100", t |-> f.local]]]

Resume_processMaterialChunk ==
    /\ pc = "reading"
    /\ Top.fn = "processMaterialChunk"
    /\ Returned
    /\ LET e == processMaterialChunkEnd(Top, ret.v, stack[Top.obj].local)
       IN  /\ stack' = SetLocal(Pop, Top.obj, e.material)
           /\ ret' = e.ret
    /\ UNCHANGED <<stream, in, pc, result,
                   lastChunk, lastChunks, failedChunks, skipped, seen>>
    /\ TrackFailure

(* The three handlers below read no nested chunks. *)
RunLeaf(h, res) ==
    /\ InHandler(h)
    /\ in' = res.in
    /\ ret' = RetOf(res)
    /\ stack' = SetLocal(stack, Top.obj, res.obj)
    /\ UNCHANGED <<stream, pc, result,
                   lastChunk, lastChunks, failedChunks, skipped, seen>>

Run_processColorChunk ==
    /\ InHandler("processColorChunk")
    /\ RunLeaf("processColorChunk",
               processColorChunk(in, Top.chunkType, stack[Top.obj].local))
    /\ TrackFailure

Run_processPercentageChunk ==
    /\ InHandler("processPercentageChunk")
    /\ RunLeaf("processPercentageChunk",
               processPercentageChunk(in, Top.chunkType, stack[Top.obj].local))
    /\ TrackFailure

Run_processTexmapChunk ==
    /\ InHandler("processTexmapChunk")
    /\ RunLeaf("processTexmapChunk",
               processTexmapChunk(in, Top.chunkType, stack[Top.obj].local))
    /\ TrackFailure

(***************************************************************************)
(* The input corpus: encoders of well-formed chunks, a family of meshes    *)
(* whose face-array and smoothing-group chunks vary, and two files that    *)
(* hold every chunk type, each also truncated at every length and with     *)
(* every single byte raised or lowered by one.                             *)
(***************************************************************************)
RECURSIVE Cat(_)
Cat(ss) == IF ss = <<>> THEN <<>> ELSE Head(ss) \o Cat(Tail(ss))

Chunk(type, content) == U16(type) \o I32(Len(content) + HeaderSize) \o content
Fill(n, b) == [i \in 1..n |-> b]
Name(n) == [i \in 1..n |-> IF i = n THEN 0 ELSE 64 + i]
F32(k) == <<k, 0, 0, 64>>
Vertex(k) == F32(k) \o F32(k + 1) \o F32(k + 2)
Face(k) == U16(k) \o U16(k + 1) \o U16(k + 2) \o U16(0)

(* A chunk no handler of the level it is put at recognises; its content    *)
(* reads as a chunk header of size -1.                                     *)
Unk(n) == Chunk(M3DCHUNK_MAGIC, Fill(n, 255))

PointArray(n) == Chunk(M3DCHUNK_POINT_ARRAY, U16(n) \o Cat([i \in 1..n |-> Vertex(i)]))
TexCoords(n) ==
    Chunk(M3DCHUNK_MESH_TEXTURE_COORDS, U16(n) \o Cat([i \in 1..n |-> F32(i) \o F32(i + 1)]))
MeshMatrix == Chunk(M3DCHUNK_MESH_MATRIX, Cat([i \in 1..12 |-> F32(i)]))
FaceArray(n, trailer) ==
    Chunk(M3DCHUNK_FACE_ARRAY, U16(n) \o Cat([i \in 1..n |-> Face(i)]) \o trailer)
SmoothGroup(k, negative) ==
    Chunk(M3DCHUNK_MESH_SMOOTH_GROUP,
          Cat([i \in 1..k |-> IF negative /\ i = k THEN I32(-1) ELSE I32(i)]))
MaterialGroup(nameLen, k) ==
    Chunk(M3DCHUNK_MESH_MATERIAL_GROUP,
          Name(nameLen) \o U16(k) \o Cat([i \in 1..k |-> U16(i - 1)]))
TriMesh(content) == Chunk(M3DCHUNK_TRIANGLE_MESH, content)
Object(nameLen, content) == Chunk(M3DCHUNK_NAMED_OBJECT, Name(nameLen) \o content)
Scene(content) == Chunk(M3DCHUNK_MESHDATA, content)
File(content) == Chunk(M3DCHUNK_MAGIC, content)
Color24 == Chunk(M3DCHUNK_COLOR_24, <<255, 128, 0>>)
ColorFloat == Chunk(M3DCHUNK_COLOR_FLOAT, F32(1) \o F32(2) \o F32(3))
IntPercentage == Chunk(M3DCHUNK_INT_PERCENTAGE, U16(25))
FloatPercentage == Chunk(M3DCHUNK_FLOAT_PERCENTAGE, F32(7))
Material(content) == Chunk(M3DCHUNK_MATERIAL_ENTRY, content)

(* Smoothing-group chunks around the face count F of the mesh. *)
SmoothElems(F) ==
    {SmoothGroup(k, FALSE) : k \in {F - 1, F, F + 1} \cap Nat}
        \cup (IF F > 0 THEN {SmoothGroup(F, TRUE)} ELSE {})
Trailers(F) ==
    {<<>>, MaterialGroup(2, 1), Unk(3)} \cup SmoothElems(F)
        \cup {SmoothGroup(F, FALSE) \o t : t \in SmoothElems(F) \cup {MaterialGroup(1, 0)}}
FirstArrays ==
    UNION {{[n |-> n, bytes |-> FaceArray(n, t)] : t \in Trailers(n)} : n \in 0..MaxFaces}
SecondArrays(F1) ==
    UNION {{FaceArray(n, t) : t \in {<<>>, SmoothGroup(n, FALSE)} \cup SmoothElems(F1 + n)}
           : n \in 0..MaxFaces}
MeshContents ==
    {a.bytes : a \in FirstArrays}
        \cup UNION {{a.bytes \o b : b \in SecondArrays(a.n)} : a \in FirstArrays}
MeshFiles == {File(Scene(Object(2, TriMesh(c)))) : c \in MeshContents}

MeshSeed ==
    File(Unk(3) \o
         Scene(Unk(0) \o
               Object(3, Unk(2) \o
                         TriMesh(PointArray(2) \o TexCoords(1) \o MeshMatrix \o
                                 FaceArray(1, MaterialGroup(2, 1) \o SmoothGroup(1, FALSE)
                                              \o Unk(1) \o MaterialGroup(1, 0)) \o
                                 Unk(4) \o PointArray(1)) \o
                         TriMesh(PointArray(1) \o FaceArray(0, <<>>))) \o
               Object(1, <<>>)))

MaterialSeed ==
    File(Unk(1) \o
         Scene(Chunk(M3DCHUNK_BACKGROUND_COLOR, Unk(1) \o Color24) \o
               Material(Chunk(M3DCHUNK_MATERIAL_NAME, Name(3)) \o
                        Chunk(M3DCHUNK_MATERIAL_AMBIENT, Color24) \o
                        Chunk(M3DCHUNK_MATERIAL_DIFFUSE, ColorFloat) \o
                        Chunk(M3DCHUNK_MATERIAL_SPECULAR, Color24 \o ColorFloat) \o
                        Chunk(M3DCHUNK_MATERIAL_SHININESS, Unk(2) \o IntPercentage) \o
                        Chunk(M3DCHUNK_MATERIAL_TRANSPARENCY, FloatPercentage) \o
                        Chunk(M3DCHUNK_MATERIAL_TEXMAP,
                              Chunk(M3DCHUNK_MATERIAL_MAPNAME, Name(4)) \o Unk(0)) \o
                        Chunk(M3DCHUNK_COLOR_24, Color24)) \o
               Object(2, Unk(1) \o
                         TriMesh(Chunk(M3DCHUNK_NAMED_OBJECT, Name(2)) \o
                                 FaceArray(0, Unk(2) \o MaterialGroup(1, 0)))) \o
               Chunk(M3DCHUNK_TRIANGLE_MESH, PointArray(0)) \o
               Material(Chunk(M3DCHUNK_MATERIAL_SHININESS, <<>>) \o
                        Chunk(M3DCHUNK_MATERIAL_AMBIENT, Unk(0)))))

(* Every grouping chunk holds a chunk of its own type, and of its parent's  *)
(* type, among its children.                                               *)
NestedSeed ==
    File(File(Scene(<<>>)) \o
         Scene(Scene(Object(1, <<>>)) \o
               Object(3, Object(2, TriMesh(<<>>)) \o
                         TriMesh(TriMesh(PointArray(1)) \o
                                 FaceArray(1, FaceArray(0, <<>>) \o
                                              TriMesh(FaceArray(0, <<>>)) \o
                                              SmoothGroup(1, FALSE)) \o
                                 Scene(<<>>))) \o
               Material(Material(<<>>) \o
                        Chunk(M3DCHUNK_MATERIAL_AMBIENT,
                              Chunk(M3DCHUNK_MATERIAL_AMBIENT, Color24) \o Color24) \o
                        Chunk(M3DCHUNK_MATERIAL_SHININESS,
                              Chunk(M3DCHUNK_MATERIAL_SHININESS, IntPercentage) \o
                              IntPercentage) \o
                        Chunk(M3DCHUNK_MATERIAL_TEXMAP,
                              Chunk(M3DCHUNK_MATERIAL_TEXMAP, <<>>) \o
                              Chunk(M3DCHUNK_MATERIAL_MAPNAME, Name(2)))) \o
               Chunk(M3DCHUNK_BACKGROUND_COLOR,
                     Chunk(M3DCHUNK_BACKGROUND_COLOR, ColorFloat) \o ColorFloat) \o
               Object(3, <<>>)))

(* A named-object chunk that declares `declared` content bytes and holds a  *)
(* name of nameLen bytes, after an object whose name fills its content.    *)
NamedObject(nameLen, declared) ==
    U16(M3DCHUNK_NAMED_OBJECT) \o I32(declared + HeaderSize) \o Name(nameLen)
NameFiles ==
    {File(Scene(Object(3, <<>>) \o NamedObject(n, c) \o Unk(2))) :
        n \in 1..3, c \in 0..4}

Truncations(s) == {SubSeq(s, 1, k) : k \in 0..(Len(s) - 1)}
Mutations(s) ==
    UNION {{[s EXCEPT ![i] = (@ + 1) % 256], [s EXCEPT ![i] = (@ + 255) % 256]}
           : i \in 1..Len(s)}
Perturbed(s) == {s} \cup Truncations(s) \cup Mutations(s)

Corpus ==
    MeshFiles \cup Perturbed(MeshSeed) \cup Perturbed(MaterialSeed)
        \cup Perturbed(NestedSeed) \cup NameFiles

(***************************************************************************)
(* The specification.                                                      *)
(***************************************************************************)
Init ==
    /\ stream \in Corpus
    /\ in = [pos |-> 0, good |-> TRUE]
    /\ stack = <<>>
    /\ ret = NoRet
    /\ pc = "start"
    /\ result = nullptr
    /\ lastChunk = NoChunk
    /\ lastChunks = NoChunks
    /\ failedChunks = {}
    /\ skipped = {}
    /\ seen = <<>>
    /\ everFailed = FALSE

Next ==
    \/ Read3DSFile_Begin
    \/ Read3DSFile_End
    \/ read3DSChunks_Call
    \/ read3DSChunks_Accumulate
    \/ read3DSChunks_Return
    \/ read3DSChunk_Header
    \/ read3DSChunk_Return
    \/ Run_processTopLevelChunk
    \/ Run_processSceneChunk
    \/ Resume_processSceneChunk
    \/ Run_processModelChunk
    \/ Resume_processModelChunk
    \/ Run_processTriMeshChunk
    \/ Resume_readFaceArray
    \/ Run_processFaceArrayChunk
    \/ Run_processMaterialChunk
    \/ Resume_processMaterialChunk
    \/ Run_processColorChunk
    \/ Run_processPercentageChunk
    \/ Run_processTexmapChunk

Spec == Init /\ [][Next]_vars

(* Zero-length contents, unknown types and nested groups in a short file. *)
LiveSeed ==
    File(Unk(0) \o
         Scene(Object(1, Unk(1) \o TriMesh(FaceArray(0, Unk(0)))) \o
               Material(Chunk(M3DCHUNK_MATERIAL_SHININESS, <<>>))))
LiveCorpus == {MeshSeed, MaterialSeed, NestedSeed} \cup Perturbed(LiveSeed)

LiveInit ==
    /\ stream \in LiveCorpus
    /\ in = [pos |-> 0, good |-> TRUE]
    /\ stack = <<>>
    /\ ret = NoRet
    /\ pc = "start"
    /\ result = nullptr
    /\ lastChunk = NoChunk
    /\ lastChunks = NoChunks
    /\ failedChunks = {}
    /\ skipped = {}
    /\ seen = <<>>
    /\ everFailed = FALSE

(* The reader is one sequential call: a step that can be taken is taken. *)
LiveSpec == LiveInit /\ [][Next]_vars /\ WF_vars(Next)

(***************************************************************************)
(* The properties checked.                                                 *)
(***************************************************************************)
RECURSIVE Sum(_)
Sum(q) == IF q = <<>> THEN 0 ELSE Head(q) + Sum(Tail(q))

(* The chunk types each handler's switch names. *)
RecognisedTypes(h) ==
    CASE h = "processTopLevelChunk" -> {M3DCHUNK_MESHDATA}
      [] h = "processSceneChunk" ->
           {M3DCHUNK_NAMED_OBJECT, M3DCHUNK_MATERIAL_ENTRY, M3DCHUNK_BACKGROUND_COLOR}
      [] h = "processModelChunk" -> {M3DCHUNK_TRIANGLE_MESH}
      [] h = "processTriMeshChunk" ->
           {M3DCHUNK_POINT_ARRAY, M3DCHUNK_MESH_TEXTURE_COORDS, M3DCHUNK_FACE_ARRAY,
            M3DCHUNK_MESH_MATRIX}
      [] h = "processFaceArrayChunk" ->
           {M3DCHUNK_MESH_MATERIAL_GROUP, M3DCHUNK_MESH_SMOOTH_GROUP}
      [] h = "processMaterialChunk" ->
           {M3DCHUNK_MATERIAL_NAME, M3DCHUNK_MATERIAL_TEXMAP}
               \cup ColorChunks \cup PercentageChunks
      [] h = "processColorChunk" -> {M3DCHUNK_COLOR_24, M3DCHUNK_COLOR_FLOAT}
      [] h = "processPercentageChunk" ->
           {M3DCHUNK_INT_PERCENTAGE, M3DCHUNK_FLOAT_PERCENTAGE}
      [] h = "processTexmapChunk" -> {M3DCHUNK_MATERIAL_MAPNAME}

Handlers ==
    {"processTopLevelChunk", "processSceneChunk", "processModelChunk",
     "processTriMeshChunk", "processFaceArrayChunk", "processMaterialChunk",
     "processColorChunk", "processPercentageChunk", "processTexmapChunk"}

(* The handler of the last chunk returned to read3DSChunk (a header that   *)
(* could not be read never reaches a handler).                             *)
Dispatched == lastChunk.valid /\ lastChunk.processed.kind # "none"
Done == pc = "done"

(* C1: whenever the active handler recognises a chunk's type and reports   *)
(* the chunk's whole declared content, C bytes, as consumed, read3DSChunk  *)
(* returns C + 6 and the cursor stands exactly C + 6 bytes after the start *)
(* of the chunk's header.                                                  *)
C1_RecognisedChunk ==
    (/\ Dispatched
     /\ lastChunk.chunkType \in RecognisedTypes(lastChunk.handler)
     /\ lastChunk.processed.v = lastChunk.contentSize)
        => /\ lastChunk.returned = lastChunk.contentSize + 6
           /\ lastChunk.endPos = lastChunk.start + lastChunk.contentSize + 6

C1_Witness ==
    /\ Dispatched
    /\ lastChunk.handler = "processTriMeshChunk"
    /\ lastChunk.chunkType = M3DCHUNK_FACE_ARRAY
    /\ lastChunk.processed.v = lastChunk.contentSize
    /\ lastChunk.contentSize > 10
    /\ lastChunk.returned = lastChunk.contentSize + 6

(* C2: at each of the nine handler levels, a chunk whose type the handler  *)
(* does not recognise and whose declared content of C bytes is in the      *)
(* stream is skipped: the handler returns UNKNOWN_CHUNK having read none   *)
(* of the content, read3DSChunk returns C + 6 and the cursor stands        *)
(* C + 6 bytes after the start of the header, whatever the content is.     *)
C2_UnknownChunk ==
    /\ (Dispatched /\ lastChunk.chunkType \notin RecognisedTypes(lastChunk.handler))
          => /\ lastChunk.processed.v = UNKNOWN_CHUNK
             /\ lastChunk.handlerEnd = lastChunk.start + 6
             /\ (lastChunk.start + 6 + lastChunk.contentSize <= Len(stream)
                   => /\ lastChunk.returned = lastChunk.contentSize + 6
                      /\ lastChunk.endPos = lastChunk.start + lastChunk.contentSize + 6)
    /\ \A h \in skipped : h \in Handlers

C2_Witness ==
    /\ skipped = Handlers
    /\ ~everFailed
    /\ Dispatched
    /\ lastChunk.processed.v = UNKNOWN_CHUNK
    /\ lastChunk.contentSize > 0
    /\ lastChunk.returned = lastChunk.contentSize + 6

(* C3: read3DSChunks returns nBytes exactly when every chunk it read was   *)
(* read successfully and their header-inclusive sizes sum to nBytes, and   *)
(* the cursor has then advanced by nBytes; when a chunk fails, the total   *)
(* steps over nBytes or nBytes is negative it returns READ_FAILURE.        *)
C3_ExactBudget ==
    lastChunks.valid =>
        LET success == ~lastChunks.chunkFailed
                          /\ Sum(lastChunks.sizes) = lastChunks.nBytes
        IN  /\ lastChunks.returned =
                   (IF success THEN lastChunks.nBytes ELSE READ_FAILURE)
            /\ success => lastChunks.endPos = lastChunks.entry + lastChunks.nBytes
            /\ Sum(lastChunks.sizes) > lastChunks.nBytes
                  => lastChunks.returned = READ_FAILURE

C3_Witness ==
    /\ lastChunks.valid
    /\ Len(lastChunks.sizes) >= 3
    /\ lastChunks.returned = lastChunks.nBytes
    /\ lastChunks.endPos = lastChunks.entry + Sum(lastChunks.sizes)

(* C4: once any call has returned READ_FAILURE or a read or skip has run   *)
(* off the stream, Read3DSFile returns no scene; in particular the count   *)
(* readFaceArray forms from a failed trailer never passes the dispatcher.  *)
C4_FailurePropagates ==
    /\ (Done /\ everFailed) => ~result.ok
    /\ (Done /\ failedChunks # {}) => ~result.ok
    /\ (Done /\ lastChunks.valid /\ lastChunks.returned = READ_FAILURE) => ~result.ok

C4_Witness ==
    /\ pc = "reading"
    /\ everFailed
    /\ in.good
    /\ Top.fn = "read3DSChunk"
    /\ Top.chunkType = M3DCHUNK_FACE_ARRAY
    /\ Top.handler = "processTriMeshChunk"
    /\ ret.kind = "count"
    /\ in.pos = Top.start + Top.chunkSize

(* C5: a handler returns UNKNOWN_CHUNK only for a type outside its switch  *)
(* and with the cursor still at the first content byte, and no value a     *)
(* function forms from byte counts is READ_FAILURE or UNKNOWN_CHUNK.       *)
C5_SentinelsDistinct ==
    /\ ret.kind = "count" => ret.v >= 0
    /\ (pc = "reading" /\ Top.fn = "read3DSChunk" /\ Top.pc = "handler" /\ Returned
           /\ ret.v = UNKNOWN_CHUNK)
          => /\ ret.kind = "sentinel"
             /\ in.pos = Top.start + 6
             /\ Top.chunkType \notin RecognisedTypes(Top.handler)

C5_Witness ==
    /\ pc = "reading"
    /\ Top.fn = "read3DSChunk"
    /\ Top.handler = "processTriMeshChunk"
    /\ Top.chunkType = M3DCHUNK_FACE_ARRAY
    /\ ret.kind = "count"
    /\ everFailed
    /\ ret.v # Top.contentSize

(***************************************************************************)
(* The objects of the graph, finished or under construction.               *)
(***************************************************************************)
Range(q) == {q[i] : i \in 1..Len(q)}
Ats(q) == [i \in 1..Len(q) |-> q[i].at]

(* The scenes: the one Read3DSFile is building and the one it returned. *)
Scenes ==
    (IF stack # <<>> THEN {stack[1].local} ELSE {})
        \cup (IF result.ok THEN {result.scene} ELSE {})
(* The meshes and models the handlers hold as locals. *)
MeshesInProgress ==
    {stack[i].local : i \in {j \in 1..Len(stack) : stack[j].fn = "processModelChunk"}}
ModelsInProgress ==
    {stack[i].local : i \in {j \in 1..Len(stack) :
                               /\ stack[j].fn = "processSceneChunk"
                               /\ stack[j].chunkType = M3DCHUNK_NAMED_OBJECT}}
AttachedModels == UNION {Range(sc.models) : sc \in Scenes}
AttachedMaterials == UNION {Range(sc.materials) : sc \in Scenes}
AttachedMeshes == UNION {Range(m.triMeshes) : m \in AttachedModels \cup ModelsInProgress}
AttachedGroups == UNION {Range(t.matGroups) : t \in AttachedMeshes \cup MeshesInProgress}
ReturnedMeshes ==
    IF Done /\ result.ok
    THEN UNION {Range(m.triMeshes) : m \in Range(result.scene.models)}
    ELSE {}

(* C6: in a scene returned by a successful decode every mesh that has      *)
(* smoothing-group entries has as many of them as faces.                   *)
C6_SmoothingMatchesFaces ==
    \A t \in ReturnedMeshes :
        Len(t.smoothingGroups) \in {0, Len(t.faces)}

(* The byte at offset o of the stream and the fields that start there. *)
ByteAt(o) == stream[o + 1]
U16At(o) == ByteAt(o) + 256 * ByteAt(o + 1)
(* The non-negative 32-bit values of a smoothing-group chunk's content: k  *)
(* whole values lie in the stream from offset o, each with its sign bit 0. *)
NonNegativeValues(o, k) ==
    /\ o + 4 * k <= Len(stream)
    /\ \A i \in 0..(k - 1) : ByteAt(o + 4 * i + 3) < 128

SmoothGroupReturned ==
    /\ Dispatched
    /\ lastChunk.handler = "processFaceArrayChunk"
    /\ lastChunk.chunkType = M3DCHUNK_MESH_SMOOTH_GROUP

(* C7 as stated: a smoothing-group chunk in the trailer of a face-array    *)
(* chunk declaring N faces is read as exactly N 32-bit values.             *)
C7_ReadsDeclaredFaces ==
    (SmoothGroupReturned /\ lastChunk.processed.kind = "count")
        => lastChunk.processed.v = 4 * lastChunk.declaredFaces

(* C7: a smoothing-group chunk is read as exactly F 32-bit values, F being *)
(* the number of faces the mesh holds when the chunk is met (the N of its  *)
(* face-array chunk only if that is the mesh's first); a chunk declaring   *)
(* 4(F-1) or 4(F+1) content bytes fails and with it the whole decode, and  *)
(* one whose content is exactly F non-negative values succeeds.            *)
C7_SmoothGroupLength ==
    /\ SmoothGroupReturned =>
          LET F == lastChunk.meshFaces
              C == lastChunk.contentSize
          IN  /\ lastChunk.meshFaces >= lastChunk.declaredFaces
              /\ lastChunk.processed.kind = "count"
                    => /\ lastChunk.processed.v = 4 * F
                       /\ lastChunk.handlerEnd = lastChunk.start + 6 + 4 * F
              /\ C \in {4 * (F - 1), 4 * (F + 1)}
                    => /\ lastChunk.returned = READ_FAILURE
                       /\ lastChunk.start \in failedChunks
              /\ (C = 4 * F /\ NonNegativeValues(lastChunk.start + 6, F))
                    => /\ lastChunk.returned = C + 6
                       /\ lastChunk.endPos = lastChunk.start + C + 6
    /\ (Done /\ failedChunks # {}) => result = nullptr

C7_Witness ==
    /\ SmoothGroupReturned
    /\ lastChunk.declaredFaces = 1
    /\ lastChunk.meshFaces = 2
    /\ lastChunk.contentSize = 8
    /\ lastChunk.returned = 14

BadMagic == Len(stream) >= 2 /\ U16At(0) # M3DCHUNK_MAGIC

(* C8: when the first 16-bit field of the stream is not the magic tag,     *)
(* Read3DSFile returns no scene with the cursor after those two bytes, no  *)
(* chunk having been read and no handler having run.                       *)
C8_MagicCheck ==
    (BadMagic /\ pc # "start")
        => /\ Done
           /\ ~result.ok
           /\ in = [pos |-> 2, good |-> TRUE]
           /\ stack = <<>>
           /\ seen = <<>>
           /\ skipped = {}
           /\ lastChunk = NoChunk
           /\ lastChunks = NoChunks

C8_Witness ==
    /\ Done
    /\ BadMagic
    /\ Len(stream) > 100
    /\ in.pos = 2
    /\ result = nullptr

(* C9 as stated: no Model, Material, TriangleMesh or MaterialGroup is in   *)
(* its parent's list when read3DSChunk has failed the chunk it was read    *)
(* from.                                                                   *)
C9_NoAttachedFailed ==
    \A o \in AttachedModels \cup AttachedMaterials \cup AttachedMeshes \cup AttachedGroups :
        o.at \notin failedChunks

(* C9: a Model, Material or TriangleMesh is in its parent's list only if   *)
(* read3DSChunk did not fail its chunk.  A MaterialGroup is appended once  *)
(* its handler has read its content without error and before read3DSChunk  *)
(* compares the count: a group whose chunk failed was read without error   *)
(* by the handler, sits only in a mesh still under construction, and that  *)
(* mesh is never added to a model nor reaches a returned scene.            *)
C9_AttachAfterSuccess ==
    /\ \A o \in AttachedModels \cup AttachedMaterials \cup AttachedMeshes :
          o.at \notin failedChunks
    /\ \A t \in AttachedMeshes : \A g \in Range(t.matGroups) : g.at \notin failedChunks
    /\ \A g \in AttachedGroups :
          (lastChunk.valid /\ lastChunk.start = g.at)
              => /\ lastChunk.processed.kind = "count"
                 /\ (g.at \in failedChunks
                        <=> lastChunk.processed.v # lastChunk.contentSize)
    /\ \A t \in MeshesInProgress :
          (\E g \in Range(t.matGroups) : g.at \in failedChunks)
              => /\ ~result.ok
                 /\ everFailed

C9_Witness ==
    /\ \E t \in MeshesInProgress : \E g \in Range(t.matGroups) :
          /\ g.at \in failedChunks
          /\ lastChunk.start = g.at
          /\ lastChunk.processed.kind = "count"
          /\ lastChunk.returned = READ_FAILURE
          /\ Len(t.matGroups) >= 2

(* The end of the chunk whose header starts at offset h, and the offsets   *)
(* of the chunks of a kind that were handed to a handler inside it.        *)
ChunkEnd(h) == h + LE_TO_CPU_INT32(SubSeq(stream, h + 3, h + 6))
SeenAts(kind) == Ats(SelectSeq(seen, LAMBDA e : e.kind = kind))
SeenIn(kind, h) ==
    Ats(SelectSeq(seen, LAMBDA e : e.kind = kind /\ h < e.at /\ e.at < ChunkEnd(h)))
(* The offsets of the entries of the array chunks at the offsets hs, an    *)
(* entry being w bytes wide: a 16-bit count follows the header.            *)
Entries(hs, w) ==
    Cat([i \in 1..Len(hs) |-> [j \in 1..U16At(hs[i] + 6) |-> hs[i] + 8 + w * (j - 1)]])
Increasing(q) == \A i, j \in 1..Len(q) : i < j => q[i] < q[j]

(* C10: in a scene returned by a successful decode the model and material  *)
(* lists, each model's mesh list and each mesh's vertex, face and          *)
(* material-group lists hold one element for every recognised chunk or     *)
(* array entry of the stream, in the order of their offsets.               *)
C10_StreamOrder ==
    (Done /\ result.ok) =>
        /\ Increasing(Ats(seen))
        /\ Ats(result.scene.models) = SeenAts("model")
        /\ Ats(result.scene.materials) = SeenAts("material")
        /\ \A m \in Range(result.scene.models) :
              /\ Ats(m.triMeshes) = SeenIn("trimesh", m.at)
              /\ \A t \in Range(m.triMeshes) :
                    /\ Ats(t.vertices) = Entries(SeenIn("points", t.at), 12)
                    /\ Ats(t.faces) = Entries(SeenIn("faces", t.at), 8)
                    /\ Ats(t.matGroups) = SeenIn("matgroup", t.at)
        /\ Len(SeenAts("trimesh")) =
               Sum([i \in 1..Len(result.scene.models) |->
                      Len(result.scene.models[i].triMeshes)])

C10_Witness ==
    /\ Done
    /\ result.ok
    /\ Len(result.scene.models) = 2
    /\ Len(result.scene.models[1].triMeshes) = 2
    /\ Len(result.scene.models[1].triMeshes[1].vertices) = 3
    /\ Len(result.scene.models[1].triMeshes[1].matGroups) = 2
    /\ Len(result.scene.models[1].triMeshes[1].faces) = 1

(* The handlers of the read3DSChunks calls that are active, outermost      *)
(* first.                                                                  *)
RECURSIVE HandlerChain(_)
HandlerChain(stk) ==
    IF stk = <<>> THEN <<>>
    ELSE IF Head(stk).fn = "read3DSChunks"
    THEN <<Head(stk).handler>> \o HandlerChain(Tail(stk))
    ELSE HandlerChain(Tail(stk))

(* The nestings of the format. *)
FormatChains ==
    {<<"processTopLevelChunk", "processSceneChunk", "processModelChunk",
       "processTriMeshChunk", "processFaceArrayChunk">>,
     <<"processTopLevelChunk", "processSceneChunk", "processColorChunk">>}
        \cup {<<"processTopLevelChunk", "processSceneChunk", "processMaterialChunk", h>> :
                h \in {"processColorChunk", "processPercentageChunk", "processTexmapChunk"}}
IsPrefix(p, q) == Len(p) <= Len(q) /\ SubSeq(q, 1, Len(p)) = p

(* C11: at no moment are more than 6 read3DSChunks calls active; the       *)
(* active calls' handlers follow one of the format's nestings from the     *)
(* top-level handler down, and no handler occurs twice among them.         *)
C11_BoundedNesting ==
    LET chain == HandlerChain(stack)
    IN  /\ Len(chain) <= 6
        /\ \A i, j \in 1..Len(chain) : i # j => chain[i] # chain[j]
        /\ \E q \in FormatChains : IsPrefix(chain, q)

C11_Witness ==
    /\ stream = NestedSeed
    /\ Len(HandlerChain(stack)) = 5
    /\ Dispatched
    /\ lastChunk.handler = "processFaceArrayChunk"
    /\ lastChunk.chunkType = M3DCHUNK_TRIANGLE_MESH
    /\ lastChunk.processed.v = UNKNOWN_CHUNK
    /\ lastChunk.returned = lastChunk.chunkSize

(* C12: on every path that succeeds, a handler's count is the distance its *)
(* cursor moved, read3DSChunk leaves the cursor at the end of the chunk    *)
(* and read3DSChunks at the end of its budget, its chunks tiling the       *)
(* budget; so when Read3DSFile returns a scene the stream is good and the  *)
(* cursor stands at the outer chunk's declared size from the start.        *)
C12_TruthfulAccounting ==
    /\ (Dispatched /\ lastChunk.returned # READ_FAILURE) =>
          /\ lastChunk.endPos = lastChunk.start + lastChunk.chunkSize
          /\ lastChunk.processed.kind = "count"
                => lastChunk.handlerEnd = lastChunk.start + 6 + lastChunk.processed.v
          /\ lastChunk.processed.v = UNKNOWN_CHUNK
                => lastChunk.handlerEnd = lastChunk.start + 6
    /\ (lastChunks.valid /\ lastChunks.returned # READ_FAILURE) =>
          /\ lastChunks.endPos = lastChunks.entry + lastChunks.nBytes
          /\ Sum(lastChunks.sizes) = lastChunks.nBytes
          /\ lastChunks.good
    /\ (Done /\ result.ok) =>
          /\ in.good
          /\ in.pos = ChunkEnd(0)
          /\ in.pos <= Len(stream)
          /\ lastChunks.entry = 6
          /\ lastChunks.returned = ChunkEnd(0) - 6

C12_Witness ==
    /\ Done
    /\ result.ok
    /\ stream = MaterialSeed
    /\ skipped = Handlers
    /\ in.pos = Len(stream)
    /\ Len(lastChunks.sizes) = 2

(* C13: Read3DSFile returns on every stream, and every chunk that          *)
(* read3DSChunks adds to its running total raises the total by at least 6. *)
C13_Termination ==
    /\ <>Done
    /\ [][(read3DSChunks_Accumulate /\ ret.v >= 0)
             => /\ ret.v >= 6
                /\ Top'.bytesRead >= Top.bytesRead + 6]_vars

C13_Witness ==
    /\ Done
    /\ stack = <<>>
    /\ stream = NestedSeed
    /\ result.ok
    /\ Len(seen) >= 5

(* The name that starts at offset o: its length with the terminating zero  *)
(* (0 if the stream holds no zero from o on) and its characters.           *)
NameLength(o) ==
    LET ends == {k \in 1..(Len(stream) - o) :
                   /\ stream[o + k] = 0
                   /\ \A j \in 1..(k - 1) : stream[o + j] # 0}
    IN  IF ends = {} THEN 0 ELSE CHOOSE k \in ends : TRUE
NameAt(o) == SubSeq(stream, o + 1, o + NameLength(o) - 1)

NamedObjectReturned ==
    /\ Dispatched
    /\ lastChunk.handler = "processSceneChunk"
    /\ lastChunk.chunkType = M3DCHUNK_NAMED_OBJECT
    /\ NameLength(lastChunk.start + 6) \in 1..maxLength

(* C14: a named-object chunk whose name is longer than its declared        *)
(* content fails, and with it the decode, and adds no Model; one whose     *)
(* name fills the content exactly succeeds and adds a Model with that name *)
(* and no meshes.                                                          *)
C14_NameOverrun ==
    /\ NamedObjectReturned =>
          LET L == NameLength(lastChunk.start + 6)
              models == {m \in AttachedModels : m.at = lastChunk.start}
          IN  /\ L > lastChunk.contentSize
                    => /\ lastChunk.returned = READ_FAILURE
                       /\ lastChunk.handlerEnd = lastChunk.start + 6 + L
                       /\ models = {}
                       /\ ~result.ok
              /\ L = lastChunk.contentSize
                    => /\ lastChunk.returned = lastChunk.chunkSize
                       /\ lastChunk.endPos = lastChunk.start + lastChunk.chunkSize
                       /\ models = {[name |-> NameAt(lastChunk.start + 6),
                                     triMeshes |-> <<>>, at |-> lastChunk.start]}
    /\ (Done /\ failedChunks # {}) => ~result.ok /\ result.scene = M3DScene

C14_Witness ==
    /\ NamedObjectReturned
    /\ NameLength(lastChunk.start + 6) = 3
    /\ lastChunk.contentSize = 2
    /\ lastChunk.returned = READ_FAILURE
    /\ \E m \in AttachedModels :
          /\ m.name = NameAt(m.at + 6)
          /\ Len(m.name) = 2
          /\ m.triMeshes = <<>>
          /\ m.at \notin failedChunks

(* A color or percentage whose components were decoded from stream bytes. *)
DecodedFloat(x) == x.k \in {"u8/255", "f32", "i16"}
DecodedColor(c) == DecodedFloat(c.red) /\ DecodedFloat(c.green) /\ DecodedFloat(c.blue)
Unset(x) == x = DefaultFloat
(* A handler is about to store the local its nested chunks were read into. *)
StoresColor ==
    /\ pc = "reading"
    /\ Returned
    /\ ret.v >= 0
    /\ \/ Top.fn = "processMaterialChunk" /\ Top.chunkType \in ColorChunks
       \/ Top.fn = "processSceneChunk" /\ Top.chunkType = M3DCHUNK_BACKGROUND_COLOR
StoresPercentage ==
    /\ pc = "reading"
    /\ Returned
    /\ ret.v >= 0
    /\ Top.fn = "processMaterialChunk"
    /\ Top.chunkType \in PercentageChunks

(* C15: the color or percentage a handler stores after its nested chunks   *)
(* were read without error was decoded from the stream, and no material of *)
(* a returned scene holds a shininess or opacity that was not.             *)
C15_StoredFromStream ==
    /\ StoresColor => DecodedColor(Top.local)
    /\ StoresPercentage => DecodedFloat(Top.local)
    /\ (Done /\ result.ok) =>
          \A m \in Range(result.scene.materials) :
              /\ Unset(m.shininess) \/ DecodedFloat(m.shininess)
              /\ Unset(m.opacity) \/ DecodedFloat(m.opacity.t)

(***************************************************************************)
(* read3DSChunks over integers of IntBits bits.  std::int32_t is scaled    *)
(* down to IntBits bits so that every budget and every chunk size of the   *)
(* signed range can be tried.  read3DSChunk is taken by what it can        *)
(* return: READ_FAILURE, or the declared size of a chunk, which is at      *)
(* least 6 and is not compared with the budget that is left.  The frame    *)
(* keeps, beside bytesRead, the sum of the sizes as a number (total) and   *)
(* how many chunks were added (n).                                         *)
(***************************************************************************)
IntBits == 5
MaxChunks == 4
IntMax == 2 ^ (IntBits - 1) - 1
IntMin == 0 - 2 ^ (IntBits - 1)
WrapInt(x) == ((x - IntMin) % (2 ^ IntBits)) + IntMin

(* bytesRead += chunkSize.  A signed sum beyond IntMax is undefined: it    *)
(* may wrap in two's complement or be carried in a wider register.         *)
AddSigned(bytesRead, chunkSize) ==
    IF bytesRead + chunkSize <= IntMax THEN {bytesRead + chunkSize}
    ELSE {WrapInt(bytesRead + chunkSize), bytesRead + chunkSize}

BudgetInit ==
    /\ stream = <<>>
    /\ in = [pos |-> 0, good |-> TRUE]
    /\ \E nBytes \in (0 - 1)..IntMax :
          stack = <<[fn |-> "read3DSChunks", nBytes |-> nBytes, bytesRead |-> 0,
                     total |-> 0, n |-> 0]>>
    /\ ret = NoRet
    /\ pc = "reading"
    /\ result = nullptr
    /\ lastChunk = NoChunk
    /\ lastChunks = NoChunks
    /\ failedChunks = {}
    /\ skipped = {}
    /\ seen = <<>>
    /\ everFailed = FALSE

(* while (bytesRead < nBytes) { chunkSize = read3DSChunk(...) *)
Budget_read3DSChunk ==
    /\ pc = "reading"
    /\ ~Returned
    /\ Top.bytesRead < Top.nBytes
    /\ Top.n < MaxChunks
    /\ \E chunkSize \in HeaderSize..IntMax :
          ret' \in {Sentinel(READ_FAILURE), ByteCount(chunkSize)}
    /\ UNCHANGED <<stream, in, stack, pc, result, lastChunk, lastChunks, failedChunks,
                   skipped, seen, everFailed>>

(* if (chunkSize < 0) return READ_FAILURE; bytesRead += chunkSize; } *)
Budget_Accumulate ==
    /\ pc = "reading"
    /\ Returned
    /\ IF ret.v < 0
       THEN /\ pc' = "done"
            /\ ret' = Sentinel(READ_FAILURE)
            /\ UNCHANGED stack
       ELSE /\ \E sum \in AddSigned(Top.bytesRead, ret.v) :
                  stack' = <<[Top EXCEPT !.bytesRead = sum, !.total = @ + ret.v,
                                        !.n = @ + 1]>>
            /\ ret' = NoRet
            /\ UNCHANGED pc
    /\ UNCHANGED <<stream, in, result, lastChunk, lastChunks, failedChunks,
                   skipped, seen, everFailed>>

(* if (bytesRead != nBytes) return READ_FAILURE; return bytesRead; *)
Budget_Return ==
    /\ pc = "reading"
    /\ ~Returned
    /\ ~(Top.bytesRead < Top.nBytes)
    /\ ret' = ChunksResult(Top.bytesRead, Top.nBytes)
    /\ pc' = "done"
    /\ UNCHANGED <<stream, in, stack, result, lastChunk, lastChunks, failedChunks,
                   skipped, seen, everFailed>>

BudgetNext ==
    \/ Budget_read3DSChunk
    \/ Budget_Accumulate
    \/ Budget_Return

BudgetSpec == BudgetInit /\ [][BudgetNext]_vars

(* C16: the sum of the chunk sizes that read3DSChunks has added never      *)
(* exceeds the largest signed value, and read3DSChunks returns a byte      *)
(* count only when that sum equals nBytes.                                 *)
C16_NoWrapAround ==
    /\ Top.total <= IntMax
    /\ (Done /\ ret.kind = "count") => Top.total = Top.nBytes

====
